---- MODULE Spec2Model ----
(***************************************************************************)
(* AQI calculator utility (src/script.js): great-circle distance, nearest  *)
(* station selection and inverse-distance-weighted estimation.             *)
(*                                                                         *)
(* JavaScript values are records [type, nan, num, den]: `type` is the      *)
(* typeof-like tag, and nan/num/den is what ToNumber gives for the value   *)
(* (NaN, or the exact rational num/den in lowest terms).  Numbers are      *)
(* exact rationals: the model idealises IEEE-754 doubles as reals.         *)
(*                                                                         *)
(* Angles (latitude, longitude) are measured in the unit that subtends one *)
(* metre of arc on the sphere of radius R, i.e. one model unit is          *)
(* 180 / (PI * R) degrees, so that degrees * (PI / 180) is units / R.      *)
(***************************************************************************)
EXTENDS Integers, Sequences, FiniteSets, TLC

VARIABLES stations, targetLat, targetLon, options, pc, outcome,
          route, intervalMeters, sampler, points, estimates, ui

vars == <<stations, targetLat, targetLon, options, pc, outcome,
          route, intervalMeters, sampler, points, estimates, ui>>

\* the arguments and the working state of the route functions
routeVars == <<route, intervalMeters, sampler, points, estimates>>

(***************************************************************************)
(* Bounds of the model.                                                    *)
(***************************************************************************)
MaxListLen == 3

\* vertices of a route, points of a list of route points
MaxRouteLen == 3

MaxPoints == 3

\* The sampler's inner loop is followed for at most this many sampled points
MaxSamples == 12

(***************************************************************************)
(* JavaScript numbers and the arithmetic the source applies to them.       *)
(***************************************************************************)
Abs(n) == IF n < 0 THEN -n ELSE n

RECURSIVE Gcd(_, _)
Gcd(a, b) == IF b = 0 THEN a ELSE Gcd(b, a % b)

JSNumber(n, d) ==
    LET g == IF d = 1 THEN 1 ELSE Gcd(Abs(n), d)
    IN  [type |-> "number", nan |-> FALSE, num |-> n \div g, den |-> d \div g]

Num(n) == JSNumber(n, 1)

NaN == [type |-> "number", nan |-> TRUE, num |-> 0, den |-> 1]

\* null: ToNumber(null) is 0
Null == [type |-> "null", nan |-> FALSE, num |-> 0, den |-> 1]

\* undefined (a missing property): ToNumber(undefined) is NaN
Undefined == [type |-> "undefined", nan |-> TRUE, num |-> 0, den |-> 1]

\* a string that is not a numeric literal, such as "n/a": ToNumber is NaN
TextString == [type |-> "string", nan |-> TRUE, num |-> 0, den |-> 1]

\* a - b
JSSub(a, b) ==
    IF a.nan \/ b.nan THEN NaN
    ELSE LET g == Gcd(a.den, b.den)
         IN  JSNumber(a.num * (b.den \div g) - b.num * (a.den \div g),
                      (a.den \div g) * b.den)

\* a + b
JSAdd(a, b) ==
    IF a.nan \/ b.nan THEN NaN
    ELSE LET g == Gcd(a.den, b.den)
         IN  JSNumber(a.num * (b.den \div g) + b.num * (a.den \div g),
                      (a.den \div g) * b.den)

\* a * b
JSMul(a, b) ==
    IF a.nan \/ b.nan THEN NaN
    ELSE LET g1 == Gcd(Abs(a.num), b.den)
             g2 == Gcd(Abs(b.num), a.den)
         IN  JSNumber((a.num \div g1) * (b.num \div g2),
                      (a.den \div g2) * (b.den \div g1))

\* a / b: 0 / 0 is NaN; a non-zero number over zero (an infinity) is reached
\* by none of the inputs of this model and has no arm.
JSDiv(a, b) ==
    CASE a.nan \/ b.nan -> NaN
      [] ~(a.nan \/ b.nan) /\ b.num = 0 /\ a.num = 0 -> NaN
      [] ~(a.nan \/ b.nan) /\ b.num # 0 ->
            LET s  == IF b.num < 0 THEN -1 ELSE 1
                g1 == Gcd(Abs(a.num), Abs(b.num))
                g2 == Gcd(a.den, b.den)
            IN  JSNumber(s * (a.num \div g1) * (b.den \div g2),
                         (a.den \div g2) * (Abs(b.num) \div g1))

\* a > b and a < b: false when either operand is NaN
JSGreater(a, b) == ~a.nan /\ ~b.nan /\ a.num * b.den > b.num * a.den

JSLess(a, b) == ~a.nan /\ ~b.nan /\ a.num * b.den < b.num * a.den

\* the global isNaN(v): ToNumber(v) is NaN
isNaN(v) == v.nan

\* Math.max(a, b) and Math.min(a, b): NaN when either argument is NaN
MathMax(a, b) == IF a.nan \/ b.nan THEN NaN ELSE IF JSLess(a, b) THEN b ELSE a

MathMin(a, b) == IF a.nan \/ b.nan THEN NaN ELSE IF JSLess(b, a) THEN b ELSE a

\* a slip: base * exponent in place of base ^ exponent
MathPowAsProduct(base, exponent) == JSMul(base, exponent)

\* Math.pow(base, exponent) for an integer exponent >= 0
RECURSIVE MathPow(_, _)
MathPow(base, exponent) ==
    IF base.nan \/ exponent.nan THEN NaN
    ELSE IF exponent.num = 0 THEN Num(1)
    ELSE JSMul(base, MathPow(base, Num(exponent.num - 1)))

\* Math.round(x): floor(x + 1/2)
MathRound(x) ==
    IF x.nan THEN NaN ELSE Num((2 * x.num + x.den) \div (2 * x.den))

\* Math.abs(x)
MathAbs(x) == IF x.nan THEN NaN ELSE JSNumber(Abs(x.num), x.den)

(***************************************************************************)
(* calculateDistance: the Haversine formula.                               *)
(***************************************************************************)
\* Earth's radius in meters
R == 6371000

\* degrees * (Math.PI / 180); in model units PI / 180 is 1 / R
toRadians(degrees) == JSDiv(degrees, Num(R))

\* a slip: the angle keeps the sign of the difference
HaversineAngleSigned(lat1, lat2, dLat, dLon) ==
    CASE lat1.nan \/ lat2.nan \/ dLat.nan \/ dLon.nan -> NaN
      [] ~(lat1.nan \/ lat2.nan \/ dLat.nan \/ dLon.nan) /\ dLon.num = 0 -> dLat
      [] ~(lat1.nan \/ lat2.nan \/ dLat.nan \/ dLon.nan) /\ dLon.num # 0
            /\ lat1.num = 0 /\ lat2.num = 0 -> dLon

\* c = 2 * atan2(sqrt(a), sqrt(1 - a)) with
\* a = sin^2(dLat/2) + cos(lat1) * cos(lat2) * sin^2(dLon/2).
\* Between two points of one meridian (dLon = 0) a is sin^2(dLat/2) and c is
\* |dLat|; between two points of the equator a is sin^2(dLon/2) and c is
\* |dLon| (angles of at most PI).  The model draws its points from one
\* meridian or from the equator, so there is no other arm.
HaversineAngle(lat1, lat2, dLat, dLon) ==
    CASE lat1.nan \/ lat2.nan \/ dLat.nan \/ dLon.nan -> NaN
      [] ~(lat1.nan \/ lat2.nan \/ dLat.nan \/ dLon.nan) /\ dLon.num = 0 ->
            MathAbs(dLat)
      [] ~(lat1.nan \/ lat2.nan \/ dLat.nan \/ dLon.nan) /\ dLon.num # 0
            /\ lat1.num = 0 /\ lat2.num = 0 ->
            MathAbs(dLon)

calculateDistance(lat1, lon1, lat2, lon2) ==
    LET dLat == toRadians(JSSub(lat2, lat1))
        dLon == toRadians(JSSub(lon2, lon1))
        c    == HaversineAngle(toRadians(lat1), toRadians(lat2), dLat, dLon)
        distance == JSMul(Num(R), c)
    IN  distance

(***************************************************************************)
(* Station records.  A station is null or an object                        *)
(* { id, location, coordinates, value }; `coordinates` is undefined or an  *)
(* array (`items`, of any length) and `value` is any JavaScript value.     *)
(***************************************************************************)
\* null, as an element of the input list and as the map callback's result
NullStation == [isNull |-> TRUE]

Station(id, location, coordinates, value) ==
    [isNull |-> FALSE, id |-> id, location |-> location,
     coordinates |-> coordinates, value |-> value]

NoCoordinates == [type |-> "undefined", items |-> <<>>]

Coordinates(items) == [type |-> "array", items |-> items]

\* the callback of stations.map(...): null, or { ...station, distance }
stationWithDistance(station, tLat, tLon, maxDistance) ==
    IF station.coordinates.type = "undefined"
         \/ Len(station.coordinates.items) # 2
    THEN NullStation
    ELSE LET stationLat == station.coordinates.items[1]
             stationLon == station.coordinates.items[2]
             distance   == calculateDistance(tLat, tLon, stationLat, stationLon)
         IN  IF JSGreater(distance, maxDistance)
             THEN NullStation
             ELSE [isNull |-> FALSE, id |-> station.id,
                   location |-> station.location,
                   coordinates |-> station.coordinates,
                   value |-> station.value, distance |-> distance]

\* the predicate of .filter(...)
keepStation(station) ==
    ~station.isNull /\ station.value.type # "null" /\ ~isNaN(station.value)

\* the comparator of .sort(...): a.distance - b.distance
compareDistance(a, b) == JSSub(a.distance, b.distance)

\* ECMAScript's SortCompare: a NaN result of the comparator counts as +0
sortCompare(a, b) ==
    LET v == compareDistance(a, b) IN IF v.nan THEN 0 ELSE v.num

\* .sort(compare) on a consistent comparator: a stable sort (ECMAScript 2019),
\* here by insertion: x goes after every element that does not compare
\* greater than it.
insertSorted(sorted, x) ==
    LET after == {j \in 1..Len(sorted) : sortCompare(sorted[j], x) <= 0}
        k     == IF after = {} THEN 0 ELSE CHOOSE j \in after : \A m \in after : m <= j
    IN  SubSeq(sorted, 1, k) \o <<x>> \o SubSeq(sorted, k + 1, Len(sorted))

RECURSIVE stableSort(_)
stableSort(seq) ==
    IF seq = <<>> THEN <<>>
    ELSE insertSorted(stableSort(SubSeq(seq, 1, Len(seq) - 1)), seq[Len(seq)])

\* The comparator is consistent on seq when "compares equal" is transitive:
\* a NaN distance compares equal to everything, so it is consistent only if
\* no distance is NaN or all the numeric distances are equal.
consistentComparator(seq) ==
    \/ \A i \in 1..Len(seq) : ~seq[i].distance.nan
    \/ \A i, j \in 1..Len(seq) :
          (~seq[i].distance.nan /\ ~seq[j].distance.nan)
             => sortCompare(seq[i], seq[j]) = 0

permutations(seq) ==
    LET n == Len(seq)
        P == {p \in [1..n -> 1..n] : \A i, j \in 1..n : p[i] = p[j] => i = j}
    IN  {[i \in 1..n |-> seq[p[i]]] : p \in P}

\* The orders .sort(...) can return: the stable ascending order, or, if the
\* comparator is not consistent, an implementation-defined order.
sortOutcomes(seq) ==
    IF consistentComparator(seq) THEN {stableSort(seq)} ELSE permutations(seq)

\* a slip: .slice(0, end + 1)
sliceOneMore(seq, end) ==
    SubSeq(seq, 1, IF end + 1 < Len(seq) THEN end + 1 ELSE Len(seq))

\* .slice(0, end) for an integer end: a negative end counts from the back
slice(seq, end) ==
    LET len   == Len(seq)
        final == IF end < 0 THEN (IF len + end < 0 THEN 0 ELSE len + end)
                 ELSE (IF end < len THEN end ELSE len)
    IN  SubSeq(seq, 1, final)

\* The input list: absent (null / undefined) or an array
NoStations == [present |-> FALSE, items |-> <<>>]

StationList(items) == [present |-> TRUE, items |-> items]

\* `station.coordinates` on a null element raises a TypeError
findNearestStationsThrows(stationList) ==
    /\ stationList.present
    /\ \E i \in 1..Len(stationList.items) : stationList.items[i].isNull

\* The arrays findNearestStations can return when it does not throw
findNearestStations(stationList, tLat, tLon, maxStations, maxDistance) ==
    IF ~stationList.present \/ Len(stationList.items) = 0
    THEN {<<>>}
    ELSE LET mapped   == [i \in 1..Len(stationList.items) |->
                            stationWithDistance(stationList.items[i], tLat, tLon,
                                                Num(maxDistance))]
             filtered == SelectSeq(mapped, keepStation)
         IN  {slice(sorted, maxStations) : sorted \in sortOutcomes(filtered)}

(***************************************************************************)
(* calculateEstimatedAQI                                                   *)
(***************************************************************************)
\* Destructuring with defaults: a field missing from `options` takes its
\* default.
option(opts, field, default) ==
    IF field \in DOMAIN opts THEN opts[field] ELSE default

\* a slip: the two numbers of the message swapped
insufficientMessageSwapped(minStations, found) ==
    <<"Insufficient stations found. Required: ", found, ", Found: ", minStations>>

insufficientMessage(minStations, found) ==
    <<"Insufficient stations found. Required: ", minStations, ", Found: ", found>>

\* a property the returned object does not have
Absent == <<>>

\* nearestStations.forEach(...): the sums after the first i stations
RECURSIVE weightSums(_, _, _)
weightSums(nearestStations, power, i) ==
    IF i = 0 THEN [weightedSum |-> Num(0), weightSum |-> Num(0)]
    ELSE LET before  == weightSums(nearestStations, power, i - 1)
             station == nearestStations[i]
             distance == station.distance
             adjustedDistance == MathMax(distance, Num(1))
             weight == JSDiv(Num(1), MathPow(adjustedDistance, Num(power)))
         IN  [weightedSum |-> JSAdd(before.weightedSum, JSMul(station.value, weight)),
              weightSum   |-> JSAdd(before.weightSum, weight)]

\* nearestStations.reduce((sum, s) => sum + s.distance, 0) over the first i
RECURSIVE distanceSum(_, _)
distanceSum(nearestStations, i) ==
    IF i = 0 THEN Num(0)
    ELSE JSAdd(distanceSum(nearestStations, i - 1), nearestStations[i].distance)

\* a slip: rounds to an integer, Math.round(x)
roundToInteger(x) == MathRound(x)

\* Math.round(x * 10) / 10
roundOneDecimal(x) == JSDiv(MathRound(JSMul(x, Num(10))), Num(10))

\* a slip: divides by the number of stations, not by the sum of the weights
plainAverage(nearestStations, power) ==
    LET sums == weightSums(nearestStations, power, Len(nearestStations))
    IN  IF JSGreater(sums.weightSum, Num(0))
        THEN JSDiv(sums.weightedSum, Num(Len(nearestStations)))
        ELSE Null

\* the estimate before rounding: weightSum > 0 ? weightedSum / weightSum : null
weightedAverage(nearestStations, power) ==
    LET sums == weightSums(nearestStations, power, Len(nearestStations))
    IN  IF JSGreater(sums.weightSum, Num(0))
        THEN JSDiv(sums.weightedSum, sums.weightSum)
        ELSE Null

\* a slip: the two scores have each other's weight
confidenceScoreSwapped(nearestStations, maxStations, maxDistance) ==
    LET avgDistance == JSDiv(distanceSum(nearestStations, Len(nearestStations)),
                             Num(Len(nearestStations)))
        distanceScore == MathMax(Num(0),
                                 JSSub(Num(1), JSDiv(avgDistance, Num(maxDistance))))
        stationCountScore == MathMin(Num(1),
                                     JSDiv(Num(Len(nearestStations)), Num(maxStations)))
    IN  JSMul(JSAdd(JSMul(distanceScore, JSNumber(4, 10)),
                    JSMul(stationCountScore, JSNumber(6, 10))),
              Num(100))

\* the confidence before rounding
confidenceScore(nearestStations, maxStations, maxDistance) ==
    LET avgDistance == JSDiv(distanceSum(nearestStations, Len(nearestStations)),
                             Num(Len(nearestStations)))
        distanceScore == MathMax(Num(0),
                                 JSSub(Num(1), JSDiv(avgDistance, Num(maxDistance))))
        stationCountScore == MathMin(Num(1),
                                     JSDiv(Num(Len(nearestStations)), Num(maxStations)))
    IN  JSMul(JSAdd(JSMul(distanceScore, JSNumber(6, 10)),
                    JSMul(stationCountScore, JSNumber(4, 10))),
              Num(100))

\* the element of the returned `stations` array for a station used
stationSummary(s) ==
    [id |-> s.id, location |-> s.location, aqi |-> s.value,
     distance |-> MathRound(s.distance), coordinates |-> s.coordinates]

\* The object calculateEstimatedAQI returns once findNearestStations has
\* returned nearestStations
estimateFrom(nearestStations, tLat, tLon, opts) ==
    LET power       == option(opts, "power", 2)
        maxStations == option(opts, "maxStations", 3)
        maxDistance == option(opts, "maxDistance", 50000)
        minStations == option(opts, "minStations", 1)
    IN  IF Len(nearestStations) < minStations
        THEN [estimatedAQI |-> Null,
              confidence |-> Num(0),
              stationsUsed |-> Len(nearestStations),
              stations |-> nearestStations,
              error |-> insufficientMessage(minStations, Len(nearestStations)),
              targetLocation |-> Absent]
        ELSE LET estimatedAQI == weightedAverage(nearestStations, power)
                 confidence == confidenceScore(nearestStations, maxStations, maxDistance)
             IN  [estimatedAQI |-> IF estimatedAQI.type # "null"
                                   THEN roundOneDecimal(estimatedAQI) ELSE Null,
                  confidence |-> roundOneDecimal(confidence),
                  stationsUsed |-> Len(nearestStations),
                  stations |-> [i \in 1..Len(nearestStations) |->
                                   stationSummary(nearestStations[i])],
                  error |-> Absent,
                  targetLocation |-> <<tLat, tLon>>]

\* The objects calculateEstimatedAQI can return when it does not throw
calculateEstimatedAQI(tLat, tLon, stationList, opts) ==
    {estimateFrom(nearestStations, tLat, tLon, opts) :
        nearestStations \in findNearestStations(stationList, tLat, tLon,
                                option(opts, "maxStations", 3),
                                option(opts, "maxDistance", 50000))}

(***************************************************************************)
(* calculateEstimatedAQIForRoute and calculateRouteAverageAQI.  A point is *)
(* an array [lat, lon].                                                    *)
(***************************************************************************)
\* the points argument of the route functions: null/undefined or an array
NoPoints == [present |-> FALSE, items |-> <<>>]

PointList(items) == [present |-> TRUE, items |-> items]

\* { pointIndex: index, ...result }
withPointIndex(index, result) ==
    [f \in DOMAIN result \cup {"pointIndex"} |->
        IF f = "pointIndex" THEN index ELSE result[f]]

\* a slip: the points are numbered from 1
routePointResultFromOne(point, index, stationList, opts) ==
    { withPointIndex(index + 1, result) :
        result \in calculateEstimatedAQI(point[1], point[2], stationList, opts) }

\* The objects the map callback can return for the point at `index`
\* (counted from 0)
routePointResult(point, index, stationList, opts) ==
    { withPointIndex(index, result) :
        result \in calculateEstimatedAQI(point[1], point[2], stationList, opts) }

\* points.map(...): the arrays it can return for the first n points
RECURSIVE mapPoints(_, _, _, _)
mapPoints(pointList, stationList, opts, n) ==
    IF n = 0 THEN {<<>>}
    ELSE { Append(before, r) :
             before \in mapPoints(pointList, stationList, opts, n - 1),
             r \in routePointResult(pointList.items[n], n - 1, stationList, opts) }

\* calculateEstimatedAQI throws for some point
calculateEstimatedAQIForRouteThrows(pointList, stationList) ==
    /\ pointList.present
    /\ Len(pointList.items) > 0
    /\ findNearestStationsThrows(stationList)

\* The arrays calculateEstimatedAQIForRoute can return when it does not throw
calculateEstimatedAQIForRoute(pointList, stationList, opts) ==
    IF ~pointList.present \/ Len(pointList.items) = 0
    THEN {<<>>}
    ELSE mapPoints(pointList, stationList, opts, Len(pointList.items))

\* aqi !== null && !isNaN(aqi)
validAQI(aqi) == aqi.type # "null" /\ ~isNaN(aqi)

\* validAQIs.reduce((sum, aqi) => sum + aqi, 0)
RECURSIVE reduceSum(_)
reduceSum(validAQIs) ==
    IF validAQIs = <<>> THEN Num(0)
    ELSE JSAdd(reduceSum(SubSeq(validAQIs, 1, Len(validAQIs) - 1)),
               validAQIs[Len(validAQIs)])

\* Math.min(...validAQIs), Math.max(...validAQIs) of a non-empty array
RECURSIVE MathMinOf(_)
MathMinOf(validAQIs) ==
    IF Len(validAQIs) = 1 THEN validAQIs[1]
    ELSE MathMin(MathMinOf(SubSeq(validAQIs, 1, Len(validAQIs) - 1)),
                 validAQIs[Len(validAQIs)])

\* a slip: Math.min where Math.max is meant
MathMaxOfAsMin(validAQIs) == MathMinOf(validAQIs)

RECURSIVE MathMaxOf(_)
MathMaxOf(validAQIs) ==
    IF Len(validAQIs) = 1 THEN validAQIs[1]
    ELSE MathMax(MathMaxOf(SubSeq(validAQIs, 1, Len(validAQIs) - 1)),
                 validAQIs[Len(validAQIs)])

NoValidMessage == "No valid AQI estimates found for route"

\* points.length is read of null/undefined when no estimate is valid
calculateRouteAverageAQIThrows(pointList, stationList) ==
    \/ calculateEstimatedAQIForRouteThrows(pointList, stationList)
    \/ ~pointList.present

\* a slip: the sum is divided by the number of points of the route
averageOverAllPoints(validAQIs, totalPoints) ==
    JSDiv(reduceSum(validAQIs), Num(totalPoints))

\* validAQIs.reduce(...) / validAQIs.length
averageOf(validAQIs, totalPoints) ==
    JSDiv(reduceSum(validAQIs), Num(Len(validAQIs)))

\* The object calculateRouteAverageAQI returns once
\* calculateEstimatedAQIForRoute has returned routeAQIs
aggregateFrom(routeAQIs, pointList) ==
    LET validAQIs == SelectSeq([i \in 1..Len(routeAQIs) |-> routeAQIs[i].estimatedAQI],
                               validAQI)
        totalPoints == Len(pointList.items)
    IN  IF Len(validAQIs) = 0
        THEN [averageAQI |-> Null, minAQI |-> Null, maxAQI |-> Null,
              validPoints |-> 0, totalPoints |-> totalPoints,
              coverage |-> Absent, error |-> NoValidMessage]
        ELSE [averageAQI |-> roundOneDecimal(averageOf(validAQIs, totalPoints)),
              minAQI |-> roundOneDecimal(MathMinOf(validAQIs)),
              maxAQI |-> roundOneDecimal(MathMaxOf(validAQIs)),
              validPoints |-> Len(validAQIs), totalPoints |-> totalPoints,
              coverage |-> MathRound(JSMul(JSDiv(Num(Len(validAQIs)), Num(totalPoints)),
                                           Num(100))),
              error |-> Absent]

\* The objects calculateRouteAverageAQI can return when it does not throw
calculateRouteAverageAQI(pointList, stationList, opts) ==
    { aggregateFrom(routeAQIs, pointList) :
        routeAQIs \in calculateEstimatedAQIForRoute(pointList, stationList, opts) }

(***************************************************************************)
(* Inputs.  Points lie on the meridian of longitude 0; latitudes are given *)
(* in metres of arc from the equator.                                      *)
(***************************************************************************)
Point(lat) == Coordinates(<<Num(lat), Num(0)>>)

\* Stations a few metres from the target: well-formed ones, and ones whose
\* coordinates are missing, too short or not numbers
NearStations ==
    { Station(1, "A", Point(0), Num(50)),
      Station(2, "B", Point(0), JSNumber(1234, 100)),
      Station(3, "C", Point(3), Num(20)),
      Station(4, "D", NoCoordinates, Num(40)),
      Station(5, "E", Coordinates(<<Num(3)>>), Num(40)),
      Station(6, "F", Coordinates(<<Undefined, Undefined>>), Num(40)) }

\* Lists with stations whose value is null or not a number are drawn from these
UnreadStations ==
    { Station(1, "A", Point(0), Num(50)),
      Station(3, "C", Point(3), Num(20)),
      Station(7, "G", Point(0), Null),
      Station(8, "H", Point(0), TextString) }

\* Lists with a null element are drawn from these
SparseStations ==
    { Station(1, "A", Point(0), Num(50)),
      Station(3, "C", Point(3), Num(20)),
      NullStation }

\* Stations kilometres from the target
FarStations ==
    { Station(11, "K", Point(1000), Num(20)),
      Station(12, "L", Point(3000), Num(80)),
      Station(13, "M", Point(-1000), Num(50)),
      Station(14, "N", Point(60000), Num(10)) }

NearTargets == {0}

FarTargets == {0, 2000}

\* the lists of at most n distinct stations of S
stationLists(S, n) ==
    UNION { { StationList(items) :
                items \in {f \in [1..k -> S] : \A i, j \in 1..k : f[i] = f[j] => i = j} }
            : k \in 0..n }

Scenarios ==
    ([target : NearTargets,
      stations : stationLists(NearStations, MaxListLen)
                    \cup stationLists(UnreadStations, MaxListLen)
                    \cup stationLists(SparseStations, MaxListLen)
                    \cup {NoStations}])
    \cup [target : FarTargets, stations : stationLists(FarStations, MaxListLen)]

OptionNames == {"power", "maxStations", "maxDistance", "minStations"}

OptionValues ==
    [power : {1, 2}, maxStations : {-1, 0, 1, 3},
     maxDistance : {2, 50000}, minStations : {0, 1, 2}]

OptionDefaults ==
    [power |-> 2, maxStations |-> 3, maxDistance |-> 50000, minStations |-> 1]

\* the caller leaves out the options it wants at their defaults
OptionChoices ==
    { [f \in {g \in OptionNames : o[g] # OptionDefaults[g]} |-> o[f]] : o \in OptionValues }

(***************************************************************************)
(* Route sampling.  A route is null/undefined or an array of [lat, lon]    *)
(* arrays.  An array of two numbers is an object: `aliasOf` is 0 for an    *)
(* array the function allocated and k for the array that is vertex k of    *)
(* the caller's route.                                                     *)
(***************************************************************************)
NoRoute == [present |-> FALSE, items |-> <<>>]

Route(items) == [present |-> TRUE, items |-> items]

\* the array literal [a, b]
newArray(a, b) == [items |-> <<a, b>>, aliasOf |-> 0]

\* routeCoordinates[k - 1], the object itself
vertexArray(routeCoordinates, k) ==
    [items |-> routeCoordinates.items[k], aliasOf |-> k]

\* a slip: the vertex is pushed, not a copy of it
copyOfVertexAliased(routeCoordinates, k) == vertexArray(routeCoordinates, k)

\* [p[0], p[1]] for p = routeCoordinates[k - 1]
copyOfVertex(routeCoordinates, k) ==
    newArray(routeCoordinates.items[k][1], routeCoordinates.items[k][2])

\* a slip: a > b in place of a >= b
JSGreaterStrict(a, b) == JSGreater(a, b)

\* a >= b, a !== b on numbers
JSGreaterEq(a, b) == ~a.nan /\ ~b.nan /\ a.num * b.den >= b.num * a.den

JSStrictNotEqual(a, b) == a.nan \/ b.nan \/ a.num # b.num \/ a.den # b.den

\* intervalMeters = 1000 when the argument is undefined
intervalOrDefault(interval) ==
    IF interval.type = "undefined" THEN Num(1000) ELSE interval

\* a slip: fewer than 1 vertex in place of fewer than 2
degenerateRouteBelowOne(routeCoordinates) ==
    ~routeCoordinates.present \/ Len(routeCoordinates.items) < 1

\* !routeCoordinates || routeCoordinates.length < 2
degenerateRoute(routeCoordinates) ==
    ~routeCoordinates.present \/ Len(routeCoordinates.items) < 2

SamplerIdle ==
    [i |-> 0, accumulatedDistance |-> Num(0), segmentDistance |-> Num(0),
     lastPoint |-> <<>>, sampledPoints |-> <<>>]

\* the locals before the for loop; i counts from 1 in the code and is the
\* 1-based index of currentPoint here
samplerStart(routeCoordinates) ==
    [i |-> 2, accumulatedDistance |-> Num(0), segmentDistance |-> Num(0),
     lastPoint |-> routeCoordinates.items[1],
     sampledPoints |-> <<copyOfVertex(routeCoordinates, 1)>>]

\* a slip: every sample is placed one interval into the segment, whatever
\* was carried over from the segments before
interpolatedPointIgnoringCarry(lastPoint, currentPoint, interval, accumulatedDistance, segmentDistance) ==
    IF segmentDistance.num = 0
    THEN newArray(NaN, NaN)
    ELSE LET fraction == JSDiv(interval, segmentDistance)
         IN  newArray(JSAdd(lastPoint[1],
                            JSMul(JSSub(currentPoint[1], lastPoint[1]), fraction)),
                      JSAdd(lastPoint[2],
                            JSMul(JSSub(currentPoint[2], lastPoint[2]), fraction)))

\* One pass of the while body.  On a segment of length 0 the fraction is
\* 0/0 (NaN) or x/0 (an infinity) and currentPoint - lastPoint is 0 in both
\* coordinates: 0 * NaN and 0 * Infinity are NaN.
interpolatedPoint(lastPoint, currentPoint, interval, accumulatedDistance, segmentDistance) ==
    LET distanceToSample ==
            JSSub(interval, JSSub(accumulatedDistance, segmentDistance))
    IN  IF segmentDistance.num = 0
        THEN newArray(NaN, NaN)
        ELSE LET fraction == JSDiv(distanceToSample, segmentDistance)
                 lat == JSAdd(lastPoint[1],
                              JSMul(JSSub(currentPoint[1], lastPoint[1]), fraction))
                 lon == JSAdd(lastPoint[2],
                              JSMul(JSSub(currentPoint[2], lastPoint[2]), fraction))
             IN  newArray(lat, lon)

\* a slip: the last vertex is never appended
finalPointsWithoutLast(sampledPoints, routeCoordinates) == sampledPoints

\* the array returned: the last vertex is appended unless the last sampled
\* point has its two coordinates
finalPoints(sampledPoints, routeCoordinates) ==
    LET n         == Len(routeCoordinates.items)
        lastCoord == routeCoordinates.items[n]
        m         == Len(sampledPoints)
    IN  IF \/ m = 0
           \/ JSStrictNotEqual(sampledPoints[m].items[1], lastCoord[1])
           \/ JSStrictNotEqual(sampledPoints[m].items[2], lastCoord[2])
        THEN Append(sampledPoints, copyOfVertex(routeCoordinates, n))
        ELSE sampledPoints

(***************************************************************************)
(* The state machine: a caller holding (stations, target, options) calls   *)
(* one of the exported functions; `outcome` is what the call did.          *)
(***************************************************************************)
\* the two components' state before they are mounted
NotMounted ==
    [result |-> Null, routeResult |-> Null,
     effectPending |-> FALSE, routeEffectPending |-> FALSE]

NoOutcome == [op |-> "none", threw |-> FALSE, returned |-> <<>>]

Init ==
    /\ \E sc \in Scenarios :
          /\ stations = sc.stations
          /\ targetLat = Num(sc.target)
          /\ targetLon = Num(0)
    /\ options \in OptionChoices
    /\ pc = "ready"
    /\ outcome = NoOutcome
    /\ route = NoRoute
    /\ intervalMeters = Undefined
    /\ sampler = SamplerIdle
    /\ points = NoPoints
    /\ estimates = <<>>
    /\ ui = NotMounted

CallFindNearestStations ==
    /\ pc = "ready"
    /\ pc' = "returned"
    /\ IF findNearestStationsThrows(stations)
       THEN outcome' = [op |-> "findNearestStations", threw |-> TRUE, returned |-> <<>>]
       ELSE \E r \in findNearestStations(stations, targetLat, targetLon,
                                         option(options, "maxStations", 3),
                                         option(options, "maxDistance", 50000)) :
               outcome' = [op |-> "findNearestStations", threw |-> FALSE, returned |-> r]
    /\ UNCHANGED <<stations, targetLat, targetLon, options>>
    /\ UNCHANGED routeVars
    /\ UNCHANGED ui

CallCalculateEstimatedAQI ==
    /\ pc = "ready"
    /\ pc' = "returned"
    /\ IF findNearestStationsThrows(stations)
       THEN outcome' = [op |-> "calculateEstimatedAQI", threw |-> TRUE, returned |-> <<>>]
       ELSE \E r \in calculateEstimatedAQI(targetLat, targetLon, stations, options) :
               outcome' = [op |-> "calculateEstimatedAQI", threw |-> FALSE, returned |-> r]
    /\ UNCHANGED <<stations, targetLat, targetLon, options>>
    /\ UNCHANGED routeVars
    /\ UNCHANGED ui

Next ==
    \/ CallFindNearestStations
    \/ CallCalculateEstimatedAQI

Spec == Init /\ [][Next]_vars

(***************************************************************************)
(* The route functions.  A route runs along the equator or along the       *)
(* prime meridian; 3002 is 0.027 degrees (3002.26 units) to the unit.      *)
(* sampleRoutePoints is followed loop pass by loop pass, the other         *)
(* functions call by call.                                                 *)
(***************************************************************************)
RouteOffsets == {0, 500, 1000, 3002}

EquatorVertices == { <<Num(0), Num(x)>> : x \in RouteOffsets }

MeridianVertices == { <<Num(x), Num(0)>> : x \in RouteOffsets }

\* consecutive vertices may repeat
vertexLists(V, n) == UNION { [1..k -> V] : k \in 0..n }

Routes ==
    {NoRoute} \cup { Route(r) : r \in vertexLists(EquatorVertices, MaxRouteLen)
                                      \cup vertexLists(MeridianVertices, MaxRouteLen) }

Intervals == {Undefined, Num(1000), Num(1500), Num(0), Num(-1000)}

\* Points to estimate at, on the prime meridian: 1000 m from station K,
\* at station Q, and out of range of both
RoutePointOffsets == {0, 100000, 200000}

RoutePoints == { <<Num(x), Num(0)>> : x \in RoutePointOffsets }

RoutePointLists ==
    {NoPoints} \cup { PointList(l) : l \in UNION { [1..k -> RoutePoints] : k \in 0..MaxPoints } }

StationK == Station(21, "K", Point(1000), Num(20))

StationQ == Station(22, "Q", Point(100000), JSNumber(252, 10))

RouteStationLists ==
    { StationList(<<>>), StationList(<<StationK>>), StationList(<<StationK, StationQ>>),
      StationList(<<StationK, NullStation>>) }

RouteOptions == { <<>>, [minStations |-> 2] }

\* the caller holds a route to sample, or points to estimate at
InitRoute ==
    /\ ui = NotMounted
    /\ pc = "ready"
    /\ outcome = NoOutcome
    /\ sampler = SamplerIdle
    /\ estimates = <<>>
    /\ targetLat = Num(0)
    /\ targetLon = Num(0)
    /\ \/ /\ route \in Routes
          /\ intervalMeters \in Intervals
          /\ points = NoPoints
          /\ stations = StationList(<<>>)
          /\ options = <<>>
       \/ /\ route = NoRoute
          /\ intervalMeters = Undefined
          /\ points \in RoutePointLists
          /\ stations \in RouteStationLists
          /\ options \in RouteOptions

\* lines 238-247: the early return, or the first vertex is pushed
SampleStart ==
    /\ pc = "ready"
    /\ IF degenerateRoute(route)
       THEN /\ pc' = "returned"
            /\ outcome' = [op |-> "sampleRoutePoints", threw |-> FALSE, returned |-> <<>>]
            /\ UNCHANGED sampler
       ELSE /\ pc' = "segment"
            /\ sampler' = samplerStart(route)
            /\ UNCHANGED outcome
    /\ UNCHANGED <<stations, targetLat, targetLon, options, route, intervalMeters,
                   points, estimates>>
    /\ UNCHANGED ui

\* lines 249-256: the next segment's length is added to accumulatedDistance
SampleSegment ==
    /\ pc = "segment"
    /\ sampler.i <= Len(route.items)
    /\ LET currentPoint    == route.items[sampler.i]
           segmentDistance == calculateDistance(sampler.lastPoint[1], sampler.lastPoint[2],
                                                currentPoint[1], currentPoint[2])
       IN  sampler' = [sampler EXCEPT
                          !.segmentDistance = segmentDistance,
                          !.accumulatedDistance = JSAdd(@, segmentDistance)]
    /\ pc' = "sampling"
    /\ UNCHANGED <<stations, targetLat, targetLon, options, outcome, route,
                   intervalMeters, points, estimates>>
    /\ UNCHANGED ui

\* lines 259-270: one pass of the while loop
SampleInterpolate ==
    /\ pc = "sampling"
    /\ JSGreaterEq(sampler.accumulatedDistance, intervalOrDefault(intervalMeters))
    /\ Len(sampler.sampledPoints) < MaxSamples
    /\ sampler' = [sampler EXCEPT
                      !.sampledPoints =
                          Append(@, interpolatedPoint(sampler.lastPoint,
                                                      route.items[sampler.i],
                                                      intervalOrDefault(intervalMeters),
                                                      sampler.accumulatedDistance,
                                                      sampler.segmentDistance)),
                      !.accumulatedDistance = JSSub(@, intervalOrDefault(intervalMeters))]
    /\ UNCHANGED <<stations, targetLat, targetLon, options, pc, outcome, route,
                   intervalMeters, points, estimates>>
    /\ UNCHANGED ui

\* lines 259, 272: the while loop exits and the for loop moves on
SampleSegmentDone ==
    /\ pc = "sampling"
    /\ ~JSGreaterEq(sampler.accumulatedDistance, intervalOrDefault(intervalMeters))
    /\ sampler' = [sampler EXCEPT !.lastPoint = route.items[sampler.i], !.i = @ + 1]
    /\ pc' = "segment"
    /\ UNCHANGED <<stations, targetLat, targetLon, options, outcome, route,
                   intervalMeters, points, estimates>>
    /\ UNCHANGED ui

\* lines 276-283: the for loop is over
SampleFinish ==
    /\ pc = "segment"
    /\ sampler.i > Len(route.items)
    /\ pc' = "returned"
    /\ outcome' = [op |-> "sampleRoutePoints", threw |-> FALSE,
                   returned |-> finalPoints(sampler.sampledPoints, route)]
    /\ UNCHANGED <<stations, targetLat, targetLon, options, route, intervalMeters,
                   sampler, points, estimates>>
    /\ UNCHANGED ui

sampleRoutePointsStep ==
    \/ SampleStart
    \/ SampleSegment
    \/ SampleInterpolate
    \/ SampleSegmentDone
    \/ SampleFinish

\* calculateDistance between the first two vertices of the route
CallCalculateDistance ==
    /\ pc = "ready"
    /\ route.present
    /\ Len(route.items) >= 2
    /\ pc' = "returned"
    /\ outcome' = [op |-> "calculateDistance", threw |-> FALSE,
                   returned |-> calculateDistance(route.items[1][1], route.items[1][2],
                                                  route.items[2][1], route.items[2][2])]
    /\ UNCHANGED <<stations, targetLat, targetLon, options>>
    /\ UNCHANGED routeVars
    /\ UNCHANGED ui

CallCalculateEstimatedAQIForRoute ==
    /\ pc = "ready"
    /\ pc' = "returned"
    /\ IF calculateEstimatedAQIForRouteThrows(points, stations)
       THEN outcome' = [op |-> "calculateEstimatedAQIForRoute", threw |-> TRUE,
                        returned |-> <<>>]
       ELSE \E r \in calculateEstimatedAQIForRoute(points, stations, options) :
               outcome' = [op |-> "calculateEstimatedAQIForRoute", threw |-> FALSE,
                           returned |-> r]
    /\ UNCHANGED <<stations, targetLat, targetLon, options>>
    /\ UNCHANGED routeVars
    /\ UNCHANGED ui

CallCalculateRouteAverageAQI ==
    /\ pc = "ready"
    /\ pc' = "returned"
    /\ IF calculateRouteAverageAQIThrows(points, stations)
       THEN outcome' = [op |-> "calculateRouteAverageAQI", threw |-> TRUE,
                        returned |-> <<>>]
       ELSE \E r \in calculateRouteAverageAQI(points, stations, options) :
               outcome' = [op |-> "calculateRouteAverageAQI", threw |-> FALSE,
                           returned |-> r]
    /\ UNCHANGED <<stations, targetLat, targetLon, options>>
    /\ UNCHANGED routeVars
    /\ UNCHANGED ui

\* a slip: the results are left in the order they were completed in
reassembleInCompletionOrder(results) == results

\* the results put in the order of their pointIndex
reassemble(results) ==
    [k \in 1..Len(results) |->
        CHOOSE r \in { results[j] : j \in 1..Len(results) } : r.pointIndex = k - 1]

\* The map callback of calculateEstimatedAQIForRoute runs for the points in
\* any order; `estimates` holds the results in the order of completion.
EstimatePointInAnyOrder ==
    /\ pc \in {"ready", "estimating"}
    /\ points.present
    /\ ~findNearestStationsThrows(stations)
    /\ \E i \in 1..Len(points.items) :
          /\ \A j \in 1..Len(estimates) : estimates[j].pointIndex # i - 1
          /\ \E r \in routePointResult(points.items[i], i - 1, stations, options) :
                estimates' = Append(estimates, r)
    /\ pc' = "estimating"
    /\ UNCHANGED <<stations, targetLat, targetLon, options, outcome, route,
                   intervalMeters, sampler, points>>
    /\ UNCHANGED ui

\* every point has its result: the caller re-assembles them by pointIndex
Reassemble ==
    /\ pc = "estimating"
    /\ Len(estimates) = Len(points.items)
    /\ pc' = "returned"
    /\ outcome' = [op |-> "estimatedInAnyOrder", threw |-> FALSE,
                   returned |-> reassemble(estimates)]
    /\ UNCHANGED <<stations, targetLat, targetLon, options>>
    /\ UNCHANGED routeVars
    /\ UNCHANGED ui

NextRoute ==
    \/ sampleRoutePointsStep
    \/ CallCalculateDistance
    \/ CallFindNearestStations
    \/ CallCalculateEstimatedAQI
    \/ CallCalculateEstimatedAQIForRoute
    \/ CallCalculateRouteAverageAQI
    \/ EstimatePointInAnyOrder
    \/ Reassemble

SpecRoute == InitRoute /\ [][NextRoute]_vars

(***************************************************************************)
(* AQICalculatorDisplay and RouteAQICalculator.  The props are latitude    *)
(* (targetLat), longitude (targetLon), stations, options and routePoints   *)
(* (points); `ui` holds the `result` state of the two components and       *)
(* whether the effect of each is still to run after the last render.       *)
(* React runs the pending effects of a render before it renders again, and *)
(* runs an effect after a render only if one of its dependencies changed.  *)
(* With valid props the effect sets `result` on mount, so the button, shown *)
(* only while `result` is null, is never there to be clicked.              *)
(***************************************************************************)
\* !v is false for a number other than 0 and NaN
truthyNumber(v) == v.type = "number" /\ ~v.nan /\ v.num # 0

\* latitude && longitude && stations && stations.length > 0
canCalculate(latitude, longitude, stationList) ==
    /\ truthyNumber(latitude)
    /\ truthyNumber(longitude)
    /\ stationList.present
    /\ Len(stationList.items) > 0

\* routePoints && routePoints.length > 0 && stations && stations.length > 0
canCalculateRoute(routePoints, stationList) ==
    /\ routePoints.present
    /\ Len(routePoints.items) > 0
    /\ stationList.present
    /\ Len(stationList.items) > 0

\* what handleCalculate can pass to setResult: the calculation, or the
\* object of the catch block
displayResults(latitude, longitude, stationList, opts) ==
    IF findNearestStationsThrows(stationList)
    THEN {[estimatedAQI |-> Null, error |-> "error.message"]}
    ELSE calculateEstimatedAQI(latitude, longitude, stationList, opts)

routeDisplayResults(routePoints, stationList, opts) ==
    IF calculateRouteAverageAQIThrows(routePoints, stationList)
    THEN {[averageAQI |-> Null, error |-> "error.message"]}
    ELSE calculateRouteAverageAQI(routePoints, stationList, opts)

\* [latitude, longitude, stations.length]
effectDeps(latitude, longitude, stationList, opts) ==
    <<latitude, longitude, Len(stationList.items)>>

\* [routePoints.length, stations.length]
routeEffectDeps(routePoints, stationList, opts) ==
    <<Len(routePoints.items), Len(stationList.items)>>

\* Props: points and stations on the meridian of longitude 7
DisplayLongitude == Num(7)

DisplayLatitudes == {Num(1000), Num(3000)}

DisplayStationK == Station(31, "K", Coordinates(<<Num(2000), DisplayLongitude>>), Num(20))

DisplayStationL == Station(32, "L", Coordinates(<<Num(6000), DisplayLongitude>>), Num(80))

DisplayStationLists ==
    { StationList(<<DisplayStationK>>), StationList(<<DisplayStationL>>),
      StationList(<<DisplayStationK, DisplayStationL>>) }

DisplayOptions == { <<>>, [power |-> 1] }

DisplayRoutePoints ==
    { PointList(<< <<Num(1000), DisplayLongitude>> >>),
      PointList(<< <<Num(3000), DisplayLongitude>> >>),
      PointList(<< <<Num(1000), DisplayLongitude>>, <<Num(3000), DisplayLongitude>> >>) }

\* the two components have been mounted and rendered once
InitDisplay ==
    /\ targetLat \in DisplayLatitudes
    /\ targetLon = DisplayLongitude
    /\ stations \in DisplayStationLists
    /\ options \in DisplayOptions
    /\ points \in DisplayRoutePoints
    /\ ui = [result |-> Null, routeResult |-> Null,
             effectPending |-> TRUE, routeEffectPending |-> TRUE]
    /\ pc = "mounted"
    /\ outcome = NoOutcome
    /\ route = NoRoute
    /\ intervalMeters = Undefined
    /\ sampler = SamplerIdle
    /\ estimates = <<>>

\* the parent renders the components with new props
UpdateProps ==
    /\ pc = "mounted"
    /\ ~ui.effectPending
    /\ ~ui.routeEffectPending
    /\ targetLat' \in DisplayLatitudes
    /\ targetLon' = DisplayLongitude
    /\ stations' \in DisplayStationLists
    /\ options' \in DisplayOptions
    /\ points' \in DisplayRoutePoints
    /\ ui' = [ui EXCEPT
                 !.effectPending =
                     effectDeps(targetLat', targetLon', stations', options')
                         # effectDeps(targetLat, targetLon, stations, options),
                 !.routeEffectPending =
                     routeEffectDeps(points', stations', options')
                         # routeEffectDeps(points, stations, options)]
    /\ UNCHANGED <<pc, outcome, route, intervalMeters, sampler, estimates>>

\* the effect of AQICalculatorDisplay: handleCalculate with the props of
\* the last render
RunEffect ==
    /\ pc = "mounted"
    /\ ui.effectPending
    /\ IF canCalculate(targetLat, targetLon, stations)
       THEN \E r \in displayResults(targetLat, targetLon, stations, options) :
               ui' = [ui EXCEPT !.result = r, !.effectPending = FALSE]
       ELSE ui' = [ui EXCEPT !.effectPending = FALSE]
    /\ UNCHANGED <<stations, targetLat, targetLon, options, pc, outcome>>
    /\ UNCHANGED routeVars

\* the effect of RouteAQICalculator
RunRouteEffect ==
    /\ pc = "mounted"
    /\ ui.routeEffectPending
    /\ IF canCalculateRoute(points, stations)
       THEN \E r \in routeDisplayResults(points, stations, options) :
               ui' = [ui EXCEPT !.routeResult = r, !.routeEffectPending = FALSE]
       ELSE ui' = [ui EXCEPT !.routeEffectPending = FALSE]
    /\ UNCHANGED <<stations, targetLat, targetLon, options, pc, outcome>>
    /\ UNCHANGED routeVars

NextDisplay ==
    \/ UpdateProps
    \/ RunEffect
    \/ RunRouteEffect

SpecDisplay == InitDisplay /\ [][NextDisplay]_vars

(***************************************************************************)
(* Properties                                                              *)
(***************************************************************************)
Estimated == outcome.op = "calculateEstimatedAQI" /\ ~outcome.threw

Found == outcome.op = "findNearestStations" /\ ~outcome.threw

\* the arrays findNearestStations can return for the inputs of the state
Nearest ==
    findNearestStations(stations, targetLat, targetLon,
                        option(options, "maxStations", 3),
                        option(options, "maxDistance", 50000))

RECURSIVE SumSeq(_)
SumSeq(seq) ==
    IF seq = <<>> THEN Num(0)
    ELSE JSAdd(SumSeq(SubSeq(seq, 1, Len(seq) - 1)), seq[Len(seq)])

\* w_i = 1 / max(distance_i, 1)^power
IdwWeights(nearest, power) ==
    [i \in 1..Len(nearest) |->
        JSDiv(Num(1), MathPow(MathMax(nearest[i].distance, Num(1)), Num(power)))]

\* (sum of value_i * w_i) / (sum of w_i)
IdwQuotient(nearest, power) ==
    LET w == IdwWeights(nearest, power)
    IN  JSDiv(SumSeq([i \in 1..Len(nearest) |-> JSMul(nearest[i].value, w[i])]),
              SumSeq(w))

\* x is y rounded to one decimal place (halves round up)
IsRoundedToOneDecimal(x, y) ==
    /\ x.type = "number" /\ ~x.nan /\ ~y.nan
    /\ 10 % x.den = 0
    /\ JSLess(JSSub(y, JSNumber(1, 20)), x)
    /\ ~JSGreater(x, JSAdd(y, JSNumber(1, 20)))

\* The selection the estimate of the state was computed from
UsedBy(result, nearest) ==
    /\ result.stationsUsed = Len(nearest)
    /\ [i \in 1..Len(nearest) |-> result.stations[i].id]
          = [i \in 1..Len(nearest) |-> nearest[i].id]

\* C1 is the case: defaults, two stations used, 1000 m (value 20) and 3000 m
\* (value 80) from the target.
C1_Case ==
    /\ Estimated
    /\ DOMAIN options = {}
    /\ outcome.returned.error = Absent
    /\ outcome.returned.stationsUsed = 2
    /\ \A nearest \in Nearest :
          /\ nearest[1].distance = Num(1000) /\ nearest[1].value = Num(20)
          /\ nearest[2].distance = Num(3000) /\ nearest[2].value = Num(80)

\* C1 (as stated): with stations at 1000 m (value 20) and 3000 m (value 80),
\* power 2 and the other options at their defaults, estimatedAQI is 28.9.
C1_Estimate28_9 ==
    C1_Case => outcome.returned.estimatedAQI = JSNumber(289, 10)

\* C1 (amended): in that case estimatedAQI is 26.0, the weighted average
\* (20 / 1000^2 + 80 / 3000^2) / (1 / 1000^2 + 1 / 3000^2).
C1_Estimate26 ==
    C1_Case => outcome.returned.estimatedAQI = Num(26)

C1_Witness == C1_Case /\ outcome.returned.estimatedAQI.type = "number"

\* C2 (as stated): whenever calculateEstimatedAQI selects at least minStations
\* stations, estimatedAQI is the number (sum value_i w_i) / (sum w_i), rounded
\* to one decimal, over the stations findNearestStations returned.
C2_AlwaysWeightedAverage ==
    (Estimated /\ outcome.returned.error = Absent) =>
        /\ outcome.returned.estimatedAQI.type = "number"
        /\ \E nearest \in Nearest :
              /\ UsedBy(outcome.returned, nearest)
              /\ IsRoundedToOneDecimal(outcome.returned.estimatedAQI,
                                       IdwQuotient(nearest, option(options, "power", 2)))

\* C2 (amended): whenever calculateEstimatedAQI selects at least minStations
\* stations, then if it selected at least one station and every selected
\* distance is a number, estimatedAQI is (sum value_i w_i) / (sum w_i) over
\* the stations findNearestStations returned, rounded to one decimal;
\* otherwise (no station selected, or a selected distance is NaN)
\* estimatedAQI is null.
C2_WeightedAverageOrNull ==
    (Estimated /\ outcome.returned.error = Absent) =>
        \E nearest \in Nearest :
            /\ UsedBy(outcome.returned, nearest)
            /\ IF Len(nearest) >= 1 /\ \A i \in 1..Len(nearest) : ~nearest[i].distance.nan
               THEN IsRoundedToOneDecimal(outcome.returned.estimatedAQI,
                                          IdwQuotient(nearest, option(options, "power", 2)))
               ELSE outcome.returned.estimatedAQI = Null

C2_Witness ==
    /\ Estimated
    /\ outcome.returned.error = Absent
    /\ outcome.returned.stationsUsed = 3
    /\ outcome.returned.estimatedAQI.type = "number"
    /\ \E i, j \in 1..3 :
          /\ outcome.returned.stations[i].distance # outcome.returned.stations[j].distance
          /\ outcome.returned.stations[i].aqi # outcome.returned.stations[j].aqi

\* C3 is the case: an estimate is made from exactly one selected station, at
\* distance 0 from the target, whose value is a number.
C3_Case ==
    /\ Estimated
    /\ outcome.returned.error = Absent
    /\ \A nearest \in Nearest :
          /\ Len(nearest) = 1
          /\ nearest[1].distance = Num(0)
          /\ nearest[1].value.type = "number"

\* C3 (as stated): one station at distance 0 gives an estimatedAQI exactly
\* equal to the station's value, for every numeric value.
C3_EstimateIsValue ==
    C3_Case => \A nearest \in Nearest :
                  outcome.returned.estimatedAQI = nearest[1].value

\* C3 (amended): one station at distance 0 gives an estimatedAQI equal to the
\* station's value rounded to one decimal place (so exactly the value when
\* it has at most one decimal, e.g. 50 gives 50.0).
C3_EstimateIsRoundedValue ==
    C3_Case => \A nearest \in Nearest :
                  /\ IsRoundedToOneDecimal(outcome.returned.estimatedAQI,
                                           nearest[1].value)
                  /\ (10 % nearest[1].value.den = 0
                        => outcome.returned.estimatedAQI = nearest[1].value)

C3_Witness == C3_Case /\ outcome.returned.estimatedAQI = Num(50)

\* C4: the confidence of every result of calculateEstimatedAQI is a number
\* within [0, 100].
C4_ConfidenceInRange ==
    Estimated =>
        /\ ~outcome.returned.confidence.nan
        /\ ~JSLess(outcome.returned.confidence, Num(0))
        /\ ~JSGreater(outcome.returned.confidence, Num(100))

\* C5: when findNearestStations returns fewer than minStations stations,
\* calculateEstimatedAQI does not throw and returns estimatedAQI null,
\* confidence 0, stationsUsed the number found, and the message
\* "Insufficient stations found. Required: {minStations}, Found: {count}".
C5_InsufficientResult ==
    (outcome.op = "calculateEstimatedAQI" /\ ~findNearestStationsThrows(stations)) =>
        \A nearest \in Nearest :
            Len(nearest) < option(options, "minStations", 1) =>
                /\ ~outcome.threw
                /\ outcome.returned.estimatedAQI = Null
                /\ outcome.returned.confidence = Num(0)
                /\ outcome.returned.stationsUsed = Len(nearest)
                /\ outcome.returned.error =
                      <<"Insufficient stations found. Required: ",
                        option(options, "minStations", 1),
                        ", Found: ", Len(nearest)>>

C5_Witness ==
    /\ Estimated
    /\ option(options, "minStations", 1) = 2
    /\ outcome.returned.stationsUsed = 1
    /\ outcome.returned.error # Absent

\* C6 (as stated): findNearestStations never returns more than maxStations
\* elements, for every maxStations.
C6_AtMostMaxStations ==
    Found => Len(outcome.returned) <= option(options, "maxStations", 3)

\* C6 (amended): for every non-negative maxStations, findNearestStations
\* never returns more than maxStations elements.
C6_AtMostMaxStationsNonNegative ==
    (Found /\ option(options, "maxStations", 3) >= 0) =>
        Len(outcome.returned) <= option(options, "maxStations", 3)

\* truncation happened: more stations survived than were returned
C6_Witness ==
    /\ Found
    /\ option(options, "maxStations", 3) >= 1
    /\ Len(outcome.returned) = option(options, "maxStations", 3)
    /\ \E full \in findNearestStations(stations, targetLat, targetLon,
                                       Len(stations.items),
                                       option(options, "maxDistance", 50000)) :
          Len(full) > Len(outcome.returned)

\* C7: every station findNearestStations returns carries a distance that is
\* less than or equal to maxDistance.
C7_WithinMaxDistance ==
    Found => \A i \in 1..Len(outcome.returned) :
                /\ ~outcome.returned[i].distance.nan
                /\ ~JSGreater(outcome.returned[i].distance,
                              Num(option(options, "maxDistance", 50000)))

\* the position of the returned station i in the input list
InputIndex(i) ==
    CHOOSE k \in 1..Len(stations.items) :
        ~stations.items[k].isNull /\ stations.items[k].id = outcome.returned[i].id

\* C8: the result of findNearestStations is sorted ascending by distance and
\* stations at equal distance keep their order of the input list.
C8_SortedStable ==
    Found => \A i, j \in 1..Len(outcome.returned) :
                i < j =>
                    /\ ~outcome.returned[i].distance.nan
                    /\ ~outcome.returned[j].distance.nan
                    /\ ~JSGreater(outcome.returned[i].distance,
                                  outcome.returned[j].distance)
                    /\ (outcome.returned[i].distance = outcome.returned[j].distance
                          => InputIndex(i) < InputIndex(j))

WellFormed(station) ==
    /\ ~station.isNull
    /\ station.coordinates.type = "array"
    /\ Len(station.coordinates.items) = 2
    /\ \A k \in 1..2 : /\ station.coordinates.items[k].type = "number"
                       /\ ~station.coordinates.items[k].nan
    /\ station.value.type = "number"
    /\ ~station.value.nan

\* C9: a station with a missing or malformed coordinate pair, or a missing or
\* non-numeric value, never appears in the output of findNearestStations.
C9_OnlyWellFormedReturned ==
    Found => \A i \in 1..Len(outcome.returned) :
                \E k \in 1..Len(stations.items) :
                    /\ WellFormed(stations.items[k])
                    /\ stations.items[k].id = outcome.returned[i].id

\* C10: findNearestStations never fails with an error, and returns an empty
\* sequence when the input is empty or no station survives filtering.
C10_NeverThrows ==
    outcome.op = "findNearestStations" =>
        /\ ~outcome.threw
        /\ ((~stations.present \/ \A k \in 1..Len(stations.items) :
                                      ~WellFormed(stations.items[k]))
              => outcome.returned = <<>>)

(***************************************************************************)
(* Properties of the route functions                                       *)
(***************************************************************************)
Sampled == outcome.op = "sampleRoutePoints" /\ ~outcome.threw

\* the coordinates of the points of a sampled route
coordinatesOf(sampled) == [k \in 1..Len(sampled) |-> sampled[k].items]

\* C11: for every route of at least 2 vertices the array sampleRoutePoints
\* returns starts with the coordinates of the route's first vertex and ends
\* with the coordinates of its last vertex.
C11_FirstAndLastVertexKept ==
    (Sampled /\ route.present /\ Len(route.items) >= 2) =>
        LET out == coordinatesOf(outcome.returned)
        IN  /\ Len(out) >= 1
            /\ out[1] = route.items[1]
            /\ out[Len(out)] = route.items[Len(route.items)]

\* a route of 3 vertices was sampled into its first vertex, interpolated
\* points that are no vertex of the route, and its last vertex
C11_Witness ==
    /\ Sampled
    /\ route.present
    /\ Len(route.items) = 3
    /\ LET out == coordinatesOf(outcome.returned)
       IN  /\ Len(out) >= 4
           /\ out[1] = route.items[1]
           /\ out[Len(out)] = route.items[3]
           /\ \A k \in 2..(Len(out) - 1) :
                 \A j \in 1..3 : out[k] # route.items[j]

\* the path [(0, 0), (0, 0.027)] sampled every 1000 m
C12_Case ==
    /\ Sampled
    /\ route = Route(<< <<Num(0), Num(0)>>, <<Num(0), Num(3002)>> >>)
    /\ intervalMeters = Num(1000)

\* C12 as stated: the path [(0, 0), (0, 0.027)] sampled every 1000 m gives
\* exactly 4 points.
C12_FourPoints == C12_Case => Len(outcome.returned) = 4

\* C12: the path [(0, 0), (0, 0.027)] is 3002.26 m long and, sampled every
\* 1000 m, gives exactly 5 points: the first vertex, the points 1000 m,
\* 2000 m and 3000 m along the path, and the last vertex.
C12_FivePoints ==
    C12_Case =>
        coordinatesOf(outcome.returned) =
            << <<Num(0), Num(0)>>, <<Num(0), Num(1000)>>, <<Num(0), Num(2000)>>,
               <<Num(0), Num(3000)>>, <<Num(0), Num(3002)>> >>

C12_Witness == C12_Case /\ Len(outcome.returned) = 5

\* C13: sampleRoutePoints returns for every route and every intervalMeters,
\* 0 and negative values included: every pass of its while loop lowers
\* accumulatedDistance, which the loop tests against intervalMeters, so the
\* loop exits.
C13_WhileLoopExits ==
    [][(pc = "sampling" /\ pc' = "sampling") =>
           JSLess(sampler'.accumulatedDistance, sampler.accumulatedDistance)]_vars

\* C14: sampleRoutePoints returns the empty array, and throws nothing, when
\* the route is null/undefined or has fewer than 2 vertices.
C14_DegenerateRouteEmpty ==
    (outcome.op = "sampleRoutePoints" /\ (~route.present \/ Len(route.items) < 2)) =>
        ~outcome.threw /\ outcome.returned = <<>>

\* a route of exactly one vertex was sampled
C14_Witness ==
    /\ outcome.op = "sampleRoutePoints"
    /\ route.present
    /\ Len(route.items) = 1
    /\ outcome.returned = <<>>

\* the estimate calculateEstimatedAQI gives for each point of the state
\* (the stations of the route inputs give one possible result per point)
PointEstimates ==
    [i \in 1..Len(points.items) |->
        (CHOOSE r \in calculateEstimatedAQI(points.items[i][1], points.items[i][2],
                                            stations, options) : TRUE).estimatedAQI]

\* the estimates that are numbers
PresentEstimates == SelectSeq(PointEstimates, LAMBDA e : e.type = "number" /\ ~e.nan)

Aggregated == outcome.op = "calculateRouteAverageAQI"

\* no point of the list, if there is a list, has an estimate
NoValidEstimate ==
    /\ Aggregated
    /\ ~findNearestStationsThrows(stations)
    /\ points.present => PresentEstimates = <<>>

\* C15: when no point has a valid estimate, calculateRouteAverageAQI throws
\* nothing and returns averageAQI, minAQI and maxAQI null, coverage 0 and
\* the message, for every points argument: an empty array and null included.
C15_NoValidAggregate ==
    NoValidEstimate =>
        /\ ~outcome.threw
        /\ outcome.returned.averageAQI = Null
        /\ outcome.returned.minAQI = Null
        /\ outcome.returned.maxAQI = Null
        /\ outcome.returned.coverage = Num(0)
        /\ outcome.returned.error = NoValidMessage

AtLeastOneValid ==
    /\ Aggregated
    /\ ~findNearestStationsThrows(stations)
    /\ points.present
    /\ PresentEstimates # <<>>

\* minAQI, maxAQI, validPoints, totalPoints and coverage of C16
C16_OtherStatistics ==
    LET got   == outcome.returned
        valid == Len(PresentEstimates)
        total == Len(points.items)
    IN  /\ \E k \in 1..valid : got.minAQI = PresentEstimates[k]
        /\ \A k \in 1..valid : ~JSGreater(got.minAQI, PresentEstimates[k])
        /\ \E k \in 1..valid : got.maxAQI = PresentEstimates[k]
        /\ \A k \in 1..valid : ~JSLess(got.maxAQI, PresentEstimates[k])
        /\ got.validPoints = valid
        /\ got.totalPoints = total
        /\ got.coverage.type = "number" /\ ~got.coverage.nan /\ got.coverage.den = 1
        /\ 2 * got.coverage.num * total <= 200 * valid + total
        /\ 200 * valid + total < 2 * (got.coverage.num + 1) * total
        /\ got.coverage.num >= 0 /\ got.coverage.num <= 100

\* C16 as stated: with at least one valid estimate averageAQI is the
\* arithmetic mean of the present estimates, minAQI and maxAQI their minimum
\* and maximum, validPoints their count, totalPoints the number of points
\* and coverage = round(validPoints / totalPoints * 100), in [0, 100].
C16_ExactMean ==
    AtLeastOneValid =>
        /\ ~outcome.threw
        /\ outcome.returned.averageAQI =
               JSDiv(SumSeq(PresentEstimates), Num(Len(PresentEstimates)))
        /\ C16_OtherStatistics

\* C16: with at least one valid estimate averageAQI is the arithmetic mean
\* of the present estimates rounded to one decimal place; minAQI, maxAQI,
\* validPoints, totalPoints and coverage are as stated.
C16_RoundedMean ==
    AtLeastOneValid =>
        /\ ~outcome.threw
        /\ IsRoundedToOneDecimal(outcome.returned.averageAQI,
               JSDiv(SumSeq(PresentEstimates), Num(Len(PresentEstimates))))
        /\ C16_OtherStatistics

\* the estimates of the points differ and their mean has more than one
\* decimal place
C16_Witness ==
    /\ AtLeastOneValid
    /\ ~outcome.threw
    /\ outcome.returned.minAQI # outcome.returned.maxAQI
    /\ outcome.returned.averageAQI #
           JSDiv(SumSeq(PresentEstimates), Num(Len(PresentEstimates)))

\* C17: calculateEstimatedAQIForRoute returns one result per point, in the
\* order of the points: result i has pointIndex = i (from 0) and its other
\* fields are those calculateEstimatedAQI returns for point i.
C17_OneResultPerPoint ==
    (outcome.op = "calculateEstimatedAQIForRoute" /\ ~outcome.threw /\ points.present) =>
        /\ Len(outcome.returned) = Len(points.items)
        /\ \A i \in 1..Len(points.items) :
              /\ outcome.returned[i].pointIndex = i - 1
              /\ \E r \in calculateEstimatedAQI(points.items[i][1], points.items[i][2],
                                                 stations, options) :
                    /\ DOMAIN outcome.returned[i] = DOMAIN r \cup {"pointIndex"}
                    /\ \A f \in DOMAIN r : outcome.returned[i][f] = r[f]

\* three points were estimated, with and without an estimate
C17_Witness ==
    /\ outcome.op = "calculateEstimatedAQIForRoute"
    /\ ~outcome.threw
    /\ Len(points.items) = 3
    /\ Len(outcome.returned) = 3
    /\ outcome.returned[1].estimatedAQI # outcome.returned[2].estimatedAQI
    /\ \E i \in 1..3 : outcome.returned[i].estimatedAQI = Null
    /\ \E i \in 1..3 : outcome.returned[i].estimatedAQI.type = "number"

C19_InputsUntouched ==
    [][/\ stations' = stations
       /\ options' = options
       /\ targetLat' = targetLat
       /\ targetLon' = targetLon
       /\ route' = route
       /\ intervalMeters' = intervalMeters
       /\ points' = points
       /\ \A k \in 1..Len(sampler'.sampledPoints) :
             sampler'.sampledPoints[k].aliasOf = 0
       /\ outcome'.op = "sampleRoutePoints" =>
             \A k \in 1..Len(outcome'.returned) : outcome'.returned[k].aliasOf = 0]_vars

\* a sampled route was returned whose first and last points have the
\* coordinates of the route's vertices and are arrays of their own
C19_Witness ==
    /\ Sampled
    /\ Len(outcome.returned) >= 3
    /\ outcome.returned[1].items = route.items[1]
    /\ outcome.returned[1].aliasOf = 0
    /\ outcome.returned[Len(outcome.returned)].items = route.items[Len(route.items)]
    /\ outcome.returned[Len(outcome.returned)].aliasOf = 0

RECURSIVE pathLength(_, _)
pathLength(vertices, n) ==
    IF n <= 1 THEN Num(0)
    ELSE JSAdd(pathLength(vertices, n - 1),
               calculateDistance(vertices[n - 1][1], vertices[n - 1][2],
                                 vertices[n][1], vertices[n][2]))

PositiveInterval == JSGreater(intervalOrDefault(intervalMeters), Num(0))

\* a pass of the while loop: the point it pushed lies on the current
\* segment, past its start and not past its end, k intervals of path from
\* the first vertex when it is the k-th interpolated point
C21_PassPlacesPoint ==
    (pc = "sampling" /\ pc' = "sampling") =>
        LET k    == Len(sampler'.sampledPoints) - 1
            new  == sampler'.sampledPoints[k + 1].items
            last == sampler.lastPoint
            cur  == route.items[sampler.i]
            d    == calculateDistance(last[1], last[2], new[1], new[2])
        IN  /\ JSGreater(d, Num(0))
            /\ ~JSGreater(d, sampler.segmentDistance)
            /\ JSAdd(d, calculateDistance(new[1], new[2], cur[1], cur[2]))
                   = sampler.segmentDistance
            /\ JSAdd(pathLength(route.items, sampler.i - 1), d)
                   = JSMul(Num(k), intervalOrDefault(intervalMeters))

\* the call has returned in the next state: the number of interpolated
\* points is floor(L / intervalMeters) for a route of length L
C21_CountIsFloor ==
    (pc' = "returned" /\ outcome'.op = "sampleRoutePoints"
        /\ route.present /\ Len(route.items) >= 2) =>
        LET L == pathLength(route.items, Len(route.items))
            I == intervalOrDefault(intervalMeters)
        IN  Len(sampler'.sampledPoints) - 1 = (L.num * I.den) \div (L.den * I.num)

\* C21: with a positive interval every interpolated point is placed at a
\* fraction in (0, 1] of the current segment, the k-th one k * intervalMeters
\* of path from the first vertex; a route of length L yields
\* floor(L / intervalMeters) interpolated points and accumulatedDistance is
\* below intervalMeters whenever a segment starts.
C21_EvenSpacing ==
    [][PositiveInterval =>
          /\ C21_PassPlacesPoint
          /\ C21_CountIsFloor
          /\ pc' = "segment" =>
                JSLess(sampler'.accumulatedDistance, intervalOrDefault(intervalMeters))]_vars

\* a returned call on two segments of non-zero length whose total is no
\* multiple of the interval, with 3 or more interpolated points, one of
\* them on the second segment at a place set by what the first carried over
C21_Witness ==
    /\ Sampled
    /\ PositiveInterval
    /\ Len(route.items) = 3
    /\ route.items[1] # route.items[2]
    /\ route.items[2] # route.items[3]
    /\ Len(sampler.sampledPoints) >= 4
    /\ LET L     == pathLength(route.items, 3)
           first == pathLength(route.items, 2)
           I     == intervalOrDefault(intervalMeters)
       IN  /\ (L.num * I.den) % (L.den * I.num) # 0
           /\ (first.num * I.den) % (first.den * I.num) # 0
           /\ JSGreater(L, JSAdd(first, I))

\* C22: on a segment of length 0 the while loop makes no pass, for every
\* route and every intervalMeters: no fraction is computed with
\* segmentDistance = 0, no point is pushed and accumulatedDistance stays as
\* it was before the segment.
C22_ZeroLengthSegmentSkipped ==
    [][(pc = "sampling" /\ sampler.segmentDistance = Num(0)) =>
           /\ pc' = "segment"
           /\ sampler'.sampledPoints = sampler.sampledPoints
           /\ sampler'.accumulatedDistance = sampler.accumulatedDistance]_vars

\* an estimate was produced: estimatedAQI is a number
EstimateProduced ==
    /\ Estimated
    /\ outcome.returned.estimatedAQI.type = "number"
    /\ ~outcome.returned.estimatedAQI.nan

\* (0.6 * distanceScore + 0.4 * stationCountScore) * 100 for a selection
ConfidenceFormula(nearest, maxStations, maxDistance) ==
    LET n             == Len(nearest)
        avgDistance   == JSDiv(SumSeq([i \in 1..n |-> nearest[i].distance]), Num(n))
        closeness     == JSSub(Num(1), JSDiv(avgDistance, Num(maxDistance)))
        distanceScore == IF JSLess(closeness, Num(0)) THEN Num(0) ELSE closeness
        share         == JSDiv(Num(n), Num(maxStations))
        stationCountScore == IF JSGreater(share, Num(1)) THEN Num(1) ELSE share
    IN  JSAdd(JSMul(JSNumber(60, 1), distanceScore),
              JSMul(JSNumber(40, 1), stationCountScore))

\* C23: when an estimate is produced, confidence is
\* (0.6 * distanceScore + 0.4 * stationCountScore) * 100 rounded to one
\* decimal, with distanceScore = max(0, 1 - avgDistance / maxDistance) over
\* the unrounded distances of the stations used and
\* stationCountScore = min(1, stationsUsed / maxStations).
C23_ConfidenceFormula ==
    EstimateProduced =>
        \E nearest \in Nearest :
            /\ UsedBy(outcome.returned, nearest)
            /\ IsRoundedToOneDecimal(outcome.returned.confidence,
                   ConfidenceFormula(nearest, option(options, "maxStations", 3),
                                     option(options, "maxDistance", 50000)))

\* 2 stations of 3 allowed were used, kilometres away: both scores lie
\* strictly between 0 and 1
C23_Witness ==
    /\ EstimateProduced
    /\ option(options, "maxStations", 3) = 3
    /\ outcome.returned.stationsUsed = 2
    /\ \A i \in 1..2 : JSGreater(outcome.returned.stations[i].distance, Num(999))
    /\ JSGreater(outcome.returned.confidence, Num(40))
    /\ JSLess(outcome.returned.confidence, Num(100))

\* the result has no estimate: estimatedAQI is null or NaN
EstimateAbsent ==
    outcome.returned.estimatedAQI.type = "null" \/ outcome.returned.estimatedAQI.nan

\* C24: in every result of calculateEstimatedAQI the estimate is absent
\* exactly when fewer than minStations stations were found; a result with
\* an absent estimate has confidence 0 and a failure message; a result with
\* a present estimate has no failure message and
\* minStations <= stationsUsed <= maxStations.
C24_ResultShape ==
    Estimated =>
        \A nearest \in Nearest :
            /\ EstimateAbsent <=> Len(nearest) < option(options, "minStations", 1)
            /\ EstimateAbsent =>
                  /\ outcome.returned.confidence = Num(0)
                  /\ outcome.returned.error # Absent
            /\ ~EstimateAbsent =>
                  /\ outcome.returned.error = Absent
                  /\ option(options, "minStations", 1) <= outcome.returned.stationsUsed
                  /\ outcome.returned.stationsUsed <= option(options, "maxStations", 3)

\* C25: a present estimate lies between the smallest and the largest value
\* of the stations used, each rounded to one decimal.
C25_EstimateWithinValues ==
    EstimateProduced =>
        LET used == outcome.returned.stations
            est  == outcome.returned.estimatedAQI
        IN  /\ \E i \in 1..Len(used) : ~JSLess(est, roundOneDecimal(used[i].aqi))
            /\ \E i \in 1..Len(used) : ~JSGreater(est, roundOneDecimal(used[i].aqi))

\* three stations with three different values, not all at one distance,
\* were used and the estimate is none of the values
C25_Witness ==
    /\ EstimateProduced
    /\ outcome.returned.stationsUsed = 3
    /\ \A i, j \in 1..3 :
          i # j => outcome.returned.stations[i].aqi # outcome.returned.stations[j].aqi
    /\ \E i, j \in 1..3 :
          outcome.returned.stations[i].distance # outcome.returned.stations[j].distance
    /\ \A i \in 1..3 :
          outcome.returned.estimatedAQI # roundOneDecimal(outcome.returned.stations[i].aqi)

\* C26: in every aggregate calculateRouteAverageAQI returns with at least
\* one valid estimate, minAQI <= averageAQI <= maxAQI and
\* 1 <= validPoints <= totalPoints.
C26_AggregateOrdered ==
    (AtLeastOneValid /\ ~outcome.threw) =>
        /\ ~JSGreater(outcome.returned.minAQI, outcome.returned.averageAQI)
        /\ ~JSGreater(outcome.returned.averageAQI, outcome.returned.maxAQI)
        /\ outcome.returned.minAQI.type = "number" /\ ~outcome.returned.minAQI.nan
        /\ outcome.returned.averageAQI.type = "number" /\ ~outcome.returned.averageAQI.nan
        /\ outcome.returned.maxAQI.type = "number" /\ ~outcome.returned.maxAQI.nan
        /\ 1 <= outcome.returned.validPoints
        /\ outcome.returned.validPoints <= outcome.returned.totalPoints

\* an aggregate over points with different estimates and a point without
\* one: minAQI < averageAQI < maxAQI and validPoints < totalPoints
C26_Witness ==
    /\ AtLeastOneValid
    /\ ~outcome.threw
    /\ JSLess(outcome.returned.minAQI, outcome.returned.averageAQI)
    /\ JSLess(outcome.returned.averageAQI, outcome.returned.maxAQI)
    /\ outcome.returned.validPoints < outcome.returned.totalPoints

\* C27: once the effects of the last render have run, each component
\* displays the result computed from the current props, for every sequence
\* of updates to valid props with a non-empty station list.
C27_DisplayedIsCurrent ==
    (pc = "mounted" /\ ~ui.effectPending /\ ~ui.routeEffectPending) =>
        /\ ui.result \in displayResults(targetLat, targetLon, stations, options)
        /\ ui.routeResult \in routeDisplayResults(points, stations, options)

====
